---- MODULE Spec2Model ----
(***************************************************************************)
(* Process Management Server (ServiceManager-main/src/Server).             *)
(*                                                                         *)
(* The model has three layers:                                             *)
(*   - the registry g_commands (Mode, Status, Pid of every command);       *)
(*   - the operating system as the server sees it: a table of child        *)
(*     processes (live / zombie / free pid) and the containers that the    *)
(*     docker helpers act on;                                              *)
(*   - the request handlers of startHttpServer, one per pool thread, cut   *)
(*     into one step per access to shared memory or system call, in the    *)
(*     order the source performs them.  The source takes no lock, so the   *)
(*     steps of two handlers interleave freely (Spec).  SeqSpec is the     *)
(*     same program with one request in flight at a time; LiveSpec adds    *)
(*     that a handler, once begun, runs to its end.                        *)
(*                                                                         *)
(* Reads and writes of g_commands are taken in program order, one at a     *)
(* time (the interleavings a build without reordering produces).  The      *)
(* configuration is one that loadConfiguration accepts: workloads with a   *)
(* non-empty Path, modes C and D in turn.  fork hands out the lowest free  *)
(* pid; a pid is free again only after waitpid.  waitpid is taken to       *)
(* succeed (no handler of SIGCHLD is installed, no one else waits).        *)
(***************************************************************************)
EXTENDS Integers, Sequences, FiniteSets, TLC

\* ------------------------------------------------------------------ bounds
\* workloads in the configuration, pool threads, pids the server's children may
\* hold at one time (fork fails beyond), requests accepted in a run
NCmds == 2
NThreads == 2
MaxPid == 3
MaxReqs == 3

\* --------------------------------------------------------------- constants
DEAD == 0
RUNNING == 1
INT_MAX == 2147483647
INT_MIN == (0 - INT_MAX) - 1

Cmds == 0 .. (NCmds - 1)
Threads == 1 .. NThreads
Pids == 1 .. MaxPid
MissingFn == "<missing>"
MissingId == <<"<missing>">>

VARIABLES boot, Mode, Status, Pid, procs, container, th, prev, nreq

vars == <<boot, Mode, Status, Pid, procs, container, th, prev, nreq>>

\* ------------------------------------------------------------ OS process table
FreeProc == [st |-> "free", owner |-> -1, kind |-> "none", code |-> 0]

LiveProc(i, k) == [st |-> "live", owner |-> i, kind |-> k, code |-> 0]

FreePids == {p \in Pids : procs[p].st = "free"}

\* fork(): the pid of the new child (the lowest free one), or -1
ForkPid == IF FreePids = {} THEN -1 ELSE CHOOSE p \in FreePids : \A q \in FreePids : p <= q

\* processes that a signal sent to pid reaches (pid = -1: every process but the sender)
SignalTargets(pid) ==
    IF pid = -1 THEN {p \in Pids : procs[p].st # "free"}
    ELSE {p \in Pids : p = pid /\ procs[p].st # "free"}

\* mutant: a child that has exited and is not reaped no longer accepts signals
KillResultLiveOnly(pid) ==
    IF pid = -1 \/ \E p \in SignalTargets(pid) : procs[p].st = "live" THEN 0 ELSE -1

\* ::kill(pid, sig): 0 when some process was signalled, -1 (ESRCH) otherwise
KillResult(pid) == IF SignalTargets(pid) # {} \/ pid = -1 THEN 0 ELSE -1

\* the process table after the signal: SIGKILL ends every live target at once;
\* SIGTERM is only a request, the target exits later (ProcExit) or never
Deliver(pid, sig) ==
    [p \in Pids |->
        IF p \in SignalTargets(pid) /\ procs[p].st = "live" /\ sig = "SIGKILL"
        THEN [procs[p] EXCEPT !.st = "zombie",
                              !.code = IF procs[p].kind \in {"dstop", "dkill"} THEN 137 ELSE 0]
        ELSE procs[p]]

\* children forked by start for workload i that have not been reaped
StartChildren(i) ==
    {p \in Pids : procs[p].st # "free" /\ procs[p].owner = i
                  /\ procs[p].kind \in {"target", "dstart"}}

\* live OS-level processes of workload i: its live targets (mode C); its container,
\* counted from the moment the "docker start" helper is forked (mode D)
LiveCount(i) ==
    IF Mode[i] = "C"
    THEN Cardinality({p \in StartChildren(i) : procs[p].st = "live"})
    ELSE IF container[i] \/ \E p \in StartChildren(i) : procs[p].st = "live" THEN 1 ELSE 0

\* ------------------------------------------------------------ request parsing
Digits == <<"0", "1", "2", "3", "4", "5", "6", "7", "8", "9">>

IsDigit(c) == \E d \in 1 .. 10 : Digits[d] = c

DigitVal(c) == (CHOOSE d \in 1 .. 10 : Digits[d] = c) - 1

RECURSIVE SkipSpace(_)
SkipSpace(s) == IF s # <<>> /\ Head(s) = " " THEN SkipSpace(Tail(s)) ELSE s

\* the longest digit prefix of s, accumulated as a negative number so that INT_MIN
\* is reached without overflow: val is minus its value, over tells it left the int range
RECURSIVE DigitPrefix(_, _, _, _)
DigitPrefix(s, acc, n, over) ==
    IF s = <<>> \/ ~IsDigit(Head(s)) THEN [val |-> acc, len |-> n, over |-> over]
    ELSE LET d == DigitVal(Head(s))
             fits == ~over /\ acc >= (INT_MIN + d + 9) \div 10
         IN DigitPrefix(Tail(s), IF fits THEN acc * 10 - d ELSE 0, n + 1, ~fits)

\* std::stoi: leading blanks, an optional sign, then digits; what follows is ignored.
\* ok is FALSE where stoi throws (no digits: invalid_argument; overflow: out_of_range)
Stoi(str) ==
    LET s == SkipSpace(str)
        neg == s # <<>> /\ Head(s) = "-"
        body == IF s # <<>> /\ Head(s) \in {"-", "+"} THEN Tail(s) ELSE s
        d == DigitPrefix(body, 0, 0, FALSE)
    IN  IF d.len = 0 THEN [ok |-> FALSE, val |-> 0]
        ELSE IF d.over \/ (~neg /\ d.val = INT_MIN) THEN [ok |-> FALSE, val |-> 0]
        ELSE [ok |-> TRUE, val |-> IF neg THEN d.val ELSE 0 - d.val]

FnParams == {"start", "stop", "kill", "end", "status", "restart"}

\* the string of INT_MAX + 1
TooBig == <<"2", "1", "4", "7", "4", "8", "3", "6", "4", "8">>

IdParams == {<<"0">>, <<"1">>, <<"2">>, <<"9">>, <<"-", "1">>, <<"x">>, <<"1", "x">>, TooBig}

\* ------------------------------------------------------------ responses
NoResp == [code |-> 0, msg |-> "none", pid |-> -1, body |-> <<>>]

Resp(c, m) == [code |-> c, msg |-> m, pid |-> -1, body |-> <<>>]

\* handler of fn=start after ProcessRunner::start returned pid
StartResponse(pid) ==
    IF pid > 0 THEN [code |-> 200, msg |-> "started", pid |-> pid, body |-> <<>>]
    ELSE Resp(500, "Failed to start process")

\* handler of fn=kill/end/stop after ProcessRunner::kill returned ok
KillResponse(ok) ==
    IF ok THEN Resp(200, "terminated") ELSE Resp(500, "Failed to terminate process")

StatusName(s) == IF s = RUNNING THEN "RUNNING" ELSE "DEAD"

\* ------------------------------------------------------------ threads
\* a pool thread: its place in the handler (pc), the request (fn, idStr; id once
\* idStr is parsed and in range), the locals
\* (pid: the result of fork; i, tmp, acc: the loop of list), what the request has
\* done so far (spawned: children forked; sig: the signal it sent) and, at "done",
\* the response that is about to be sent
IdleThread ==
    [pc |-> "idle", fn |-> "none", idStr |-> <<>>, id |-> -1, pid |-> 0, i |-> 0,
     tmp |-> "", acc |-> <<>>, spawned |-> 0, sig |-> <<>>, resp |-> NoResp]

\* mutant: every stop is forced
ForceAlways(t) == TRUE

\* bool force = (function == "kill")
Force(t) == th[t].fn = "kill"

\* the start/stop/kill request that was answered last, and its answer
NoPrev == [fn |-> "none", id |-> -1, code |-> 0, pid |-> -1, spawned |-> 0]

AllIdle == \A t \in Threads : th[t].pc = "idle"

\* the handler of thread t returns with response r
Finish(t, r) ==
    th' = [th EXCEPT ![t] = [@ EXCEPT !.pc = "done", !.resp = r, !.pid = 0, !.i = 0,
                                       !.tmp = "", !.acc = <<>>]]

Goto(t, l) == th' = [th EXCEPT ![t].pc = l]

\* ------------------------------------------------------------ configuration
\* The configuration file is a sequence of lines, a line a sequence of characters
\* (every line ends with a newline).
Blank(line) == \A k \in 1 .. Len(line) : line[k] = " "

\* operator>> skips white space, newlines included
RECURSIVE SkipBlankLines(_)
SkipBlankLines(f) == IF f # <<>> /\ Blank(Head(f)) THEN SkipBlankLines(Tail(f)) ELSE f

LoadFailed == [ok |-> FALSE, cmds |-> <<>>]

\* file >> numCommands, then ignore(..., '\n'): like stoi, the extraction takes the
\* longest numeric prefix and fails when there is none or it does not fit an int
ReadCount(f) ==
    LET g == SkipBlankLines(f)
    IN  IF g = <<>> THEN [ok |-> FALSE, val |-> 0, rest |-> <<>>]
        ELSE [ok |-> Stoi(Head(g)).ok, val |-> Stoi(Head(g)).val, rest |-> Tail(g)]

\* file >> cmd.Mode, then ignore(..., '\n'): the first character that is not white space
ReadMode(f) ==
    LET g == SkipBlankLines(f)
    IN  IF g = <<>> THEN [ok |-> FALSE, mode |-> " ", rest |-> <<>>]
        ELSE [ok |-> TRUE, mode |-> Head(SkipSpace(Head(g))), rest |-> Tail(g)]

\* the loop of loadConfiguration: n entries are still to be read from f
RECURSIVE LoadEntries(_, _, _)
LoadEntries(f, n, acc) ==
    IF n = 0 THEN [ok |-> TRUE, cmds |-> acc]
    ELSE IF f = <<>> THEN LoadFailed
    ELSE LET m == ReadMode(Tail(f))
         IN  IF ~m.ok \/ m.mode \notin {"C", "D"} THEN LoadFailed
             ELSE IF Len(m.rest) < 2 THEN LoadFailed
             ELSE IF Head(f) = <<>> \/ m.rest[1] = <<>> THEN LoadFailed
             ELSE LoadEntries(Tail(Tail(m.rest)), n - 1,
                              Append(acc, [Desc |-> Head(f), Mode |-> m.mode,
                                           Path |-> m.rest[1], Folder |-> m.rest[2]]))

LoadConfiguration(f) ==
    LET c == ReadCount(f)
    IN  IF ~c.ok \/ c.val < 0 THEN LoadFailed ELSE LoadEntries(c.rest, c.val, <<>>)

\* the configuration of the runs with requests: NCmds workloads, modes C and D in turn
DefaultFile ==
    [k \in 1 .. (1 + 4 * NCmds) |->
        IF k = 1 THEN <<Digits[NCmds + 1]>>
        ELSE CASE (k - 2) % 4 = 0 -> <<"a">>
               [] (k - 2) % 4 = 1 -> IF ((k - 2) \div 4) % 2 = 0 THEN <<"C">> ELSE <<"D">>
               [] (k - 2) % 4 = 2 -> <<"p">>
               [] OTHER -> <<"f">>]

\* main: its phase (pc), the configuration file, the entries loaded from it and,
\* in ~ProcessRunner, the loop index (i), the statuses found when it began (at) and
\* the calls of kill it has made (log)
Main(pc, f, cmds) == [pc |-> pc, file |-> f, cmds |-> cmds, i |-> 0, at |-> <<>>, log |-> <<>>]

\* the server once startHttpServer listens, with the configuration it loaded
Serving(f) == Main("serving", f, LoadConfiguration(f).cmds)

\* ------------------------------------------------------------ the state
\* Mode, Status, Pid: the fields of g_commands[i]; procs: the server's children by
\* pid; boot: the phase of main, the configuration file and the entries loaded from
\* it (Desc, Mode, Path, Folder of g_commands); container: whether the container of
\* workload i is up; th: the pool threads;
\* prev: the start/stop/kill request answered last; nreq: requests accepted so far
TypeOK ==
    /\ Mode \in [Cmds -> {"C", "D"}]
    /\ Status \in [Cmds -> {DEAD, RUNNING}]
    /\ Pid \in [Cmds -> Pids \cup {-1}]
    /\ \A p \in Pids : /\ procs[p].st \in {"free", "live", "zombie"}
                       /\ procs[p].owner \in Cmds \cup {-1}
                       /\ procs[p].kind \in {"none", "target", "dstart", "dstop", "dkill"}
    /\ container \in [Cmds -> BOOLEAN]
    /\ \A t \in Threads : /\ th[t].id \in Cmds \cup {-1}
                          /\ th[t].pid \in Pids \cup {0}
                          /\ th[t].spawned \in 0 .. 1
    /\ prev.id \in Cmds \cup {-1}
    /\ nreq \in 0 .. MaxReqs

\* ------------------------------------------------------------ initial state
Init ==
    /\ boot = Serving(DefaultFile)
    /\ Mode = [i \in Cmds |-> IF i % 2 = 0 THEN "C" ELSE "D"]
    /\ Status = [i \in Cmds |-> DEAD]
    /\ Pid = [i \in Cmds |-> -1]
    /\ procs = [p \in Pids |-> FreeProc]
    /\ container = [i \in Cmds |-> FALSE]
    /\ th = [t \in Threads |-> IdleThread]
    /\ prev = NoPrev
    /\ nreq = 0

\* ------------------------------------------------------------ GET /process/list
BeginList(t) ==
    /\ boot.pc = "serving"
    /\ th[t].pc = "idle"
    /\ nreq < MaxReqs
    /\ nreq' = nreq + 1
    /\ th' = [th EXCEPT ![t] = [IdleThread EXCEPT !.pc = "l_status", !.fn = "list"]]
    /\ UNCHANGED <<boot, Mode, Status, Pid, procs, container, prev>>

\* cmd.Status of element i is read
ListStatus(t) ==
    /\ th[t].pc = "l_status"
    /\ th' = [th EXCEPT ![t] = [@ EXCEPT !.pc = "l_pid", !.tmp = StatusName(Status[th[t].i])]]
    /\ UNCHANGED <<boot, Mode, Status, Pid, procs, container, prev, nreq>>

\* mutant: the loop stops one element early (i < size - 1)
ListPidShort(t) ==
    /\ th[t].pc = "l_pid"
    /\ LET e == [id |-> th[t].i, status |-> th[t].tmp, mode |-> Mode[th[t].i],
                 pid |-> Pid[th[t].i]]
           a == Append(th[t].acc, e)
       IN  IF th[t].i + 2 < NCmds
           THEN /\ th' = [th EXCEPT ![t] = [@ EXCEPT !.pc = "l_status", !.i = @ + 1,
                                                     !.tmp = "", !.acc = a]]
           ELSE Finish(t, [code |-> 200, msg |-> "list", pid |-> -1, body |-> a])
    /\ UNCHANGED <<boot, Mode, Status, Pid, procs, container, prev, nreq>>

\* cmd.Mode and cmd.Pid of element i are read; after the last element, the response
ListPid(t) ==
    /\ th[t].pc = "l_pid"
    /\ LET e == [id |-> th[t].i, status |-> th[t].tmp, mode |-> Mode[th[t].i],
                 pid |-> Pid[th[t].i]]
           a == Append(th[t].acc, e)
       IN  IF th[t].i + 1 < NCmds
           THEN /\ th' = [th EXCEPT ![t] = [@ EXCEPT !.pc = "l_status", !.i = @ + 1,
                                                     !.tmp = "", !.acc = a]]
           ELSE Finish(t, [code |-> 200, msg |-> "list", pid |-> -1, body |-> a])
    /\ UNCHANGED <<boot, Mode, Status, Pid, procs, container, prev, nreq>>

\* ------------------------------------------------------------ POST /process/control
\* mutant: the id is compared as an unsigned number would be, from above only
OutOfRangeAbove(id) == id >= NCmds

\* if (id < 0 || id >= static_cast<int>(g_commands.size()))
OutOfRange(id) == id < 0 \/ id >= NCmds

\* mutant: whatever is neither start nor status is taken as a stop
IsStopFnElse(fn) == fn # "start" /\ fn # "status"

\* function == "kill" || function == "end" || function == "stop"
IsStopFn(fn) == fn \in {"kill", "end", "stop"}

\* parameter validation and dispatch on fn
BeginControl(t) ==
    /\ boot.pc = "serving"
    /\ th[t].pc = "idle"
    /\ nreq < MaxReqs
    /\ nreq' = nreq + 1
    /\ \E fn \in FnParams \cup {MissingFn}, idStr \in IdParams \cup {MissingId} :
         LET p == IF idStr = MissingId THEN [ok |-> FALSE, val |-> 0] ELSE Stoi(idStr)
             reject(r) == th' = [th EXCEPT ![t] = [IdleThread EXCEPT !.pc = "done", !.fn = fn,
                                                                    !.idStr = idStr, !.resp = r]]
             enter(l) == th' = [th EXCEPT ![t] = [IdleThread EXCEPT !.pc = l, !.fn = fn,
                                                                   !.idStr = idStr, !.id = p.val]]
         IN  IF fn = MissingFn \/ idStr = MissingId
               THEN reject(Resp(400, "Missing required parameters: fn and id"))
             ELSE IF ~p.ok
               THEN reject(Resp(400, "Invalid id parameter: must be a number"))
             ELSE IF OutOfRange(p.val)
               THEN reject(Resp(404, "Process ID out of range"))
             ELSE IF fn = "start" THEN enter("h_start")
             ELSE IF IsStopFn(fn) THEN enter("k_chk_status")
             ELSE IF fn = "status" THEN enter("st_status")
             ELSE reject(Resp(400, "Unknown function"))
    /\ UNCHANGED <<boot, Mode, Status, Pid, procs, container, prev>>

\* fn=start: the handler's own test of Status
HStartCheck(t) ==
    /\ th[t].pc = "h_start"
    /\ Goto(t, IF Status[th[t].id] = RUNNING THEN "h_already" ELSE "s_chk_status")
    /\ UNCHANGED <<boot, Mode, Status, Pid, procs, container, prev, nreq>>

\* mutant: start on a running workload falls through to "unknown function"
HAlreadyUnknownFn(t) ==
    /\ th[t].pc = "h_already"
    /\ Finish(t, Resp(400, "Unknown function"))
    /\ UNCHANGED <<boot, Mode, Status, Pid, procs, container, prev, nreq>>

\* "Process is already running (PID: n)", n read from g_commands[id].Pid
HAlready(t) ==
    /\ th[t].pc = "h_already"
    /\ Finish(t, [code |-> 200, msg |-> "already running", pid |-> Pid[th[t].id],
                  body |-> <<>>])
    /\ UNCHANGED <<boot, Mode, Status, Pid, procs, container, prev, nreq>>

\* mutant: the comparison of cmd.Status is inverted
StatusReadInverted(t) ==
    /\ th[t].pc = "st_status"
    /\ th' = [th EXCEPT ![t] = [@ EXCEPT !.pc = "st_pid",
                   !.tmp = IF Status[th[t].id] = DEAD THEN "RUNNING" ELSE "DEAD"]]
    /\ UNCHANGED <<boot, Mode, Status, Pid, procs, container, prev, nreq>>

\* fn=status
StatusReadStatus(t) ==
    /\ th[t].pc = "st_status"
    /\ th' = [th EXCEPT ![t] = [@ EXCEPT !.pc = "st_pid", !.tmp = StatusName(Status[th[t].id])]]
    /\ UNCHANGED <<boot, Mode, Status, Pid, procs, container, prev, nreq>>

StatusReadPid(t) ==
    /\ th[t].pc = "st_pid"
    /\ Finish(t, [code |-> 200, msg |-> "status", pid |-> -1,
                  body |-> <<[id |-> th[t].id, status |-> th[t].tmp, pid |-> Pid[th[t].id]]>>])
    /\ UNCHANGED <<boot, Mode, Status, Pid, procs, container, prev, nreq>>

\* ------------------------------------------------------------ ProcessRunner::start
\* if (cmd.Status == RUNNING && cmd.Pid > 0) return cmd.Pid;  one step per read
StartChkStatus(t) ==
    /\ th[t].pc = "s_chk_status"
    /\ Goto(t, IF Status[th[t].id] = RUNNING THEN "s_chk_pid" ELSE "s_fork")
    /\ UNCHANGED <<boot, Mode, Status, Pid, procs, container, prev, nreq>>

StartChkPid(t) ==
    /\ th[t].pc = "s_chk_pid"
    /\ Goto(t, IF Pid[th[t].id] > 0 THEN "s_ret_pid" ELSE "s_fork")
    /\ UNCHANGED <<boot, Mode, Status, Pid, procs, container, prev, nreq>>

StartRetPid(t) ==
    /\ th[t].pc = "s_ret_pid"
    /\ Finish(t, StartResponse(Pid[th[t].id]))
    /\ UNCHANGED <<boot, Mode, Status, Pid, procs, container, prev, nreq>>

\* fork() succeeds: the child is the target (mode C) or the "docker start" helper (mode D)
StartFork(t) ==
    /\ th[t].pc = "s_fork"
    /\ ForkPid # -1
    /\ procs' = [procs EXCEPT ![ForkPid] =
                    LiveProc(th[t].id, IF Mode[th[t].id] = "C" THEN "target" ELSE "dstart")]
    /\ th' = [th EXCEPT ![t] = [@ EXCEPT !.pc = "s_wpid", !.pid = ForkPid,
                                         !.spawned = @ + 1]]
    /\ UNCHANGED <<boot, Mode, Status, Pid, container, prev, nreq>>

\* mutant: the result of fork is not tested, -1 is recorded like a pid
StartForkFailRecorded(t) ==
    /\ th[t].pc = "s_fork"
    /\ th' = [th EXCEPT ![t] = [@ EXCEPT !.pc = "s_wpid", !.pid = -1]]
    /\ UNCHANGED <<boot, Mode, Status, Pid, procs, container, prev, nreq>>

\* fork() fails: return -1
StartForkFail(t) ==
    /\ th[t].pc = "s_fork"
    /\ Finish(t, StartResponse(-1))
    /\ UNCHANGED <<boot, Mode, Status, Pid, procs, container, prev, nreq>>

\* cmd.Pid = pid
StartWritePid(t) ==
    /\ th[t].pc = "s_wpid"
    /\ Pid' = [Pid EXCEPT ![th[t].id] = th[t].pid]
    /\ Goto(t, "s_wstatus")
    /\ UNCHANGED <<boot, Mode, Status, procs, container, prev, nreq>>

\* mutant: start looks at the child before it records it; a child that has already
\* exited makes start return -1
StartWriteStatusChecked(t) ==
    /\ th[t].pc = "s_wstatus"
    /\ IF procs[th[t].pid].st = "zombie"
       THEN /\ Finish(t, StartResponse(-1))
            /\ UNCHANGED Status
       ELSE /\ Status' = [Status EXCEPT ![th[t].id] = RUNNING]
            /\ Finish(t, StartResponse(th[t].pid))
    /\ UNCHANGED <<boot, Mode, Pid, procs, container, prev, nreq>>

\* cmd.Status = RUNNING; return pid
StartWriteStatus(t) ==
    /\ th[t].pc = "s_wstatus"
    /\ Status' = [Status EXCEPT ![th[t].id] = RUNNING]
    /\ Finish(t, StartResponse(th[t].pid))
    /\ UNCHANGED <<boot, Mode, Pid, procs, container, prev, nreq>>

\* ------------------------------------------------------------ ProcessRunner::kill
\* mutant: only the pid is tested, not the status
KillChkStatusSkipped(t) ==
    /\ th[t].pc = "k_chk_status"
    /\ Goto(t, "k_chk_pid")
    /\ UNCHANGED <<boot, Mode, Status, Pid, procs, container, prev, nreq>>

\* if (cmd.Status != RUNNING || cmd.Pid <= 0) return false;  one step per read
KillChkStatus(t) ==
    /\ th[t].pc = "k_chk_status"
    /\ IF Status[th[t].id] # RUNNING
       THEN Finish(t, KillResponse(FALSE))
       ELSE Goto(t, "k_chk_pid")
    /\ UNCHANGED <<boot, Mode, Status, Pid, procs, container, prev, nreq>>

KillChkPid(t) ==
    /\ th[t].pc = "k_chk_pid"
    /\ IF Pid[th[t].id] <= 0
       THEN Finish(t, KillResponse(FALSE))
       ELSE Goto(t, IF Mode[th[t].id] = "C" THEN "k_signal" ELSE "k_fork")
    /\ UNCHANGED <<boot, Mode, Status, Pid, procs, container, prev, nreq>>

\* mode C: ::kill(cmd.Pid, force ? SIGKILL : SIGTERM), cmd.Pid read at the call
KillSignal(t) ==
    /\ th[t].pc = "k_signal"
    /\ LET pid == Pid[th[t].id]
           sig == IF Force(t) THEN "SIGKILL" ELSE "SIGTERM"
       IN  IF KillResult(pid) = 0
           THEN /\ procs' = Deliver(pid, sig)
                /\ th' = [th EXCEPT ![t] = [@ EXCEPT !.pc = "k_wstatus", !.sig = <<pid, sig>>]]
           ELSE /\ Finish(t, KillResponse(FALSE))
                /\ UNCHANGED procs
    /\ UNCHANGED <<boot, Mode, Status, Pid, container, prev, nreq>>

\* mode D: fork() of the helper succeeds; it will run "docker kill" (force) or
\* "docker stop"
KillFork(t) ==
    /\ th[t].pc = "k_fork"
    /\ ForkPid # -1
    /\ procs' = [procs EXCEPT ![ForkPid] =
                    LiveProc(th[t].id, IF Force(t) THEN "dkill" ELSE "dstop")]
    /\ th' = [th EXCEPT ![t] = [@ EXCEPT !.pc = "k_wait", !.pid = ForkPid,
                                         !.spawned = @ + 1]]
    /\ UNCHANGED <<boot, Mode, Status, Pid, container, prev, nreq>>

\* mutant: a stop whose fork failed marks the workload dead although it reports failure
KillForkFailMarked(t) ==
    /\ th[t].pc = "k_fork"
    /\ Status' = [Status EXCEPT ![th[t].id] = DEAD]
    /\ Finish(t, KillResponse(FALSE))
    /\ UNCHANGED <<boot, Mode, Pid, procs, container, prev, nreq>>

\* mode D: fork() fails: return false
KillForkFail(t) ==
    /\ th[t].pc = "k_fork"
    /\ Finish(t, KillResponse(FALSE))
    /\ UNCHANGED <<boot, Mode, Status, Pid, procs, container, prev, nreq>>

\* mutant: the helper is not waited for, the stop is taken to have succeeded
KillNoWait(t) ==
    /\ th[t].pc = "k_wait"
    /\ Goto(t, "k_wstatus")
    /\ UNCHANGED <<boot, Mode, Status, Pid, procs, container, prev, nreq>>

\* waitpid(child, &status, 0) returns once the helper has exited, and reaps it;
\* WIFEXITED(status) && WEXITSTATUS(status) == 0 decides
KillWait(t) ==
    /\ th[t].pc = "k_wait"
    /\ procs[th[t].pid].st = "zombie"
    /\ procs' = [procs EXCEPT ![th[t].pid] = FreeProc]
    /\ IF procs[th[t].pid].code = 0
       THEN Goto(t, "k_wstatus")
       ELSE Finish(t, KillResponse(FALSE))
    /\ UNCHANGED <<boot, Mode, Status, Pid, container, prev, nreq>>

\* cmd.Status = DEAD
KillWriteStatus(t) ==
    /\ th[t].pc = "k_wstatus"
    /\ Status' = [Status EXCEPT ![th[t].id] = DEAD]
    /\ Goto(t, "k_wpid")
    /\ UNCHANGED <<boot, Mode, Pid, procs, container, prev, nreq>>

\* mutant: the pid is left in place when the workload is marked dead
KillKeepPid(t) ==
    /\ th[t].pc = "k_wpid"
    /\ Finish(t, KillResponse(TRUE))
    /\ UNCHANGED <<boot, Mode, Status, Pid, procs, container, prev, nreq>>

\* mutant: the whole entry is reset (cmd = command{}), not only its pid
KillResetEntry(t) ==
    /\ th[t].pc = "k_wpid"
    /\ Pid' = [Pid EXCEPT ![th[t].id] = -1]
    /\ Mode' = [Mode EXCEPT ![th[t].id] = "C"]
    /\ boot' = [boot EXCEPT !.cmds[th[t].id + 1] =
                    [Desc |-> <<>>, Mode |-> "C", Path |-> <<>>, Folder |-> <<>>]]
    /\ Finish(t, KillResponse(TRUE))
    /\ UNCHANGED <<Status, procs, container, prev, nreq>>

\* mutant: the pid of every entry is reset, not only the stopped one's
KillWritePidAll(t) ==
    /\ th[t].pc = "k_wpid"
    /\ Pid' = [i \in Cmds |-> -1]
    /\ Finish(t, KillResponse(TRUE))
    /\ UNCHANGED <<boot, Mode, Status, procs, container, prev, nreq>>

\* cmd.Pid = -1; return true
KillWritePid(t) ==
    /\ th[t].pc = "k_wpid"
    /\ Pid' = [Pid EXCEPT ![th[t].id] = -1]
    /\ Finish(t, KillResponse(TRUE))
    /\ UNCHANGED <<boot, Mode, Status, procs, container, prev, nreq>>

\* ------------------------------------------------------------ the response is sent
Reply(t) ==
    /\ th[t].pc = "done"
    /\ th[t].fn # "dtor"
    /\ th' = [th EXCEPT ![t] = IdleThread]
    /\ prev' = IF th[t].id \in Cmds /\ th[t].fn \in {"start", "stop", "kill", "end"}
               THEN [fn |-> th[t].fn, id |-> th[t].id, code |-> th[t].resp.code,
                     pid |-> th[t].resp.pid, spawned |-> th[t].spawned]
               ELSE prev
    /\ UNCHANGED <<boot, Mode, Status, Pid, procs, container, nreq>>

\* ------------------------------------------------------------ the children
\* a target exits by itself: exec failed, it finished, or it honoured a SIGTERM
ProcExit(p) ==
    /\ procs[p].st = "live"
    /\ procs[p].kind = "target"
    /\ procs' = [procs EXCEPT ![p] = [@ EXCEPT !.st = "zombie"]]
    /\ UNCHANGED <<boot, Mode, Status, Pid, container, th, prev, nreq>>

\* "docker start <name>" runs to its end: the container is up, or the helper failed
DockerStartExit(p) ==
    /\ procs[p].st = "live"
    /\ procs[p].kind = "dstart"
    /\ \E ok \in BOOLEAN :
         /\ procs' = [procs EXCEPT ![p] = [@ EXCEPT !.st = "zombie"]]
         /\ container' = [container EXCEPT ![procs[p].owner] = IF ok THEN TRUE ELSE @]
    /\ UNCHANGED <<boot, Mode, Status, Pid, th, prev, nreq>>

\* "docker stop|kill <name>" runs to its end: the container is down and the exit code 0,
\* or the helper failed
DockerStopExit(p) ==
    /\ procs[p].st = "live"
    /\ procs[p].kind \in {"dstop", "dkill"}
    /\ \E ok \in BOOLEAN :
         /\ procs' = [procs EXCEPT ![p] = [@ EXCEPT !.st = "zombie",
                                                    !.code = IF ok THEN 0 ELSE 1]]
         /\ container' = [container EXCEPT ![procs[p].owner] = IF ok THEN FALSE ELSE @]
    /\ UNCHANGED <<boot, Mode, Status, Pid, th, prev, nreq>>

\* a container stops by itself
ContainerExit(i) ==
    /\ container[i]
    /\ container' = [container EXCEPT ![i] = FALSE]
    /\ UNCHANGED <<boot, Mode, Status, Pid, procs, th, prev, nreq>>

\* ------------------------------------------------------------ specifications
\* the steps a handler takes whether or not another request is in flight
SeqStep(t) ==
    \/ ListStatus(t) \/ ListPid(t)
    \/ HStartCheck(t) \/ HAlready(t)
    \/ StatusReadStatus(t) \/ StatusReadPid(t)
    \/ StartChkStatus(t)
    \/ StartFork(t) \/ StartForkFail(t) \/ StartWritePid(t) \/ StartWriteStatus(t)
    \/ KillChkStatus(t) \/ KillChkPid(t) \/ KillSignal(t)
    \/ KillFork(t) \/ KillForkFail(t) \/ KillWait(t)
    \/ KillWriteStatus(t) \/ KillWritePid(t)
    \/ Reply(t)

\* ProcessRunner::start finds the workload Running although the handler has just
\* found it not Running: only another request's write in between leads here
RaceStep(t) == StartChkPid(t) \/ StartRetPid(t)

Step(t) == SeqStep(t) \/ RaceStep(t)

Env ==
    \/ \E p \in Pids : ProcExit(p) \/ DockerStartExit(p) \/ DockerStopExit(p)
    \/ \E i \in Cmds : ContainerExit(i)

Begin(t) == BeginList(t) \/ BeginControl(t)

Next == (\E t \in Threads : Begin(t) \/ Step(t)) \/ Env

Spec == Init /\ [][Next]_vars

\* one request at a time: a request begins only when no other is in flight
\* (RaceStep is then never enabled)
SeqBegin(t) == AllIdle /\ Begin(t)

SeqNext == (\E t \in Threads : SeqBegin(t) \/ SeqStep(t)) \/ Env

SeqSpec == Init /\ [][SeqNext]_vars

\* what the server does by itself, without a new request
ServerNext == \E t \in Threads : Step(t)

\* every handler that has begun runs to its end (the pool thread is scheduled);
\* nothing obliges a client to send a request or a child to exit
LiveSpec == Spec /\ \A t \in Threads : WF_vars(Step(t))

\* ------------------------------------------------------------ claims
StartOn(t, i) == th[t].fn = "start" /\ th[t].id = i

StopOn(t, i) == th[t].fn \in {"stop", "kill"} /\ th[t].id = i

\* C1: when two start requests for a Dead workload run concurrently and both are
\* answered with success, exactly one process has been spawned for the workload and
\* the recorded pid is that process's pid.
C1_StartMutualExclusion ==
    \A i \in Cmds : \A t1, t2 \in Threads :
        (/\ t1 # t2 /\ nreq = 2
         /\ th[t1].pc = "done" /\ th[t2].pc = "done"
         /\ StartOn(t1, i) /\ StartOn(t2, i)
         /\ th[t1].resp.code = 200 /\ th[t2].resp.code = 200)
        => Cardinality(StartChildren(i)) = 1 /\ Pid[i] \in StartChildren(i)

\* C2: in a sequential run, a start request that follows a successful start request
\* on the same workload (no stop/kill answered in between) spawns nothing, is answered
\* with the pid the first one returned, and leaves the recorded status and pid as the
\* first one left them, at every step of the request; two start requests that are the
\* only requests so far have spawned exactly one process.
C2_SecondStart(t) ==
    /\ th[t].pc # "idle" /\ th[t].fn = "start" /\ th[t].id \in Cmds
    /\ prev.fn = "start" /\ prev.id = th[t].id /\ prev.code = 200

C2_StartIdempotent ==
    /\ [](\A t \in Threads : C2_SecondStart(t) =>
            /\ th[t].spawned = 0
            /\ prev.spawned + th[t].spawned <= 1
            /\ Status[th[t].id] = RUNNING /\ Pid[th[t].id] = prev.pid
            /\ nreq = 2 => Cardinality(StartChildren(th[t].id)) = 1
            /\ th[t].pc = "done" => th[t].resp.code = 200 /\ th[t].resp.pid = prev.pid)
    /\ [][\A t \in Threads : C2_SecondStart(t) => Status' = Status /\ Pid' = Pid]_vars

C2_Witness ==
    \E t \in Threads :
        /\ C2_SecondStart(t) /\ th[t].pc = "done" /\ prev.spawned = 1
        /\ th[t].resp.msg = "already running" /\ th[t].resp.pid = prev.pid

\* C3: in every reachable state, a workload recorded as Running has exactly one live
\* OS-level process (or container).
C3_RunningHasOneLiveProcess ==
    \A i \in Cmds : Status[i] = RUNNING => LiveCount(i) = 1

\* C4: in every state, also between the steps of a start or stop request, status
\* Running implies pid > 0 and status Dead implies pid = -1.
C4_StatusPidConsistent ==
    \A i \in Cmds : /\ Status[i] = RUNNING => Pid[i] > 0
                    /\ Status[i] = DEAD => Pid[i] = -1

\* C5: in a sequential run, a list request answered after a successful start of
\* workload i shows i as RUNNING with the pid that start returned (> 0), and a list
\* request answered after a successful stop or kill of i shows it as DEAD with pid -1.
C5_ListAfter(t) ==
    /\ th[t].pc = "done" /\ th[t].fn = "list"
    /\ prev.id \in Cmds /\ prev.code = 200

C5_ListShowsOutcome ==
    \A t \in Threads : C5_ListAfter(t) =>
        LET e == th[t].resp.body[prev.id + 1]
        IN  /\ th[t].resp.code = 200
            /\ e.id = prev.id
            /\ IF prev.fn = "start"
               THEN e.status = "RUNNING" /\ e.pid > 0 /\ e.pid = prev.pid
               ELSE e.status = "DEAD" /\ e.pid = -1

C5_Witness ==
    \E t \in Threads : C5_ListAfter(t) /\ prev.fn \in {"stop", "kill"}

\* C6: when ProcessRunner::kill finds the workload's status Dead, the request ends at
\* once with failure: it has sent no signal and forked no helper, and the status and
\* pid of every workload, the process table and the containers are unchanged (both
\* force values, both modes).
C6_StopOnDeadNoEffect ==
    [][\A t \in Threads :
          (th[t].pc = "k_chk_status" /\ Status[th[t].id] = DEAD /\ th'[t] # th[t]) =>
              /\ th'[t].pc = "done"
              /\ th'[t].resp = KillResponse(FALSE)
              /\ th'[t].spawned = 0 /\ th'[t].sig = <<>>
              /\ UNCHANGED <<Status, Pid, procs, container>>]_vars

C6_Witness ==
    \E t \in Threads, i \in Cmds :
        /\ th[t].pc = "done" /\ StopOn(t, i) /\ th[t].resp.code = 500
        /\ th[t].spawned = 0 /\ th[t].sig = <<>>
        /\ Status[i] = DEAD /\ Pid[i] = -1
        /\ prev.fn \in {"stop", "kill"} /\ prev.id = i /\ prev.code = 200

\* C7: a start request on a Running workload and a stop or kill request on a Dead
\* workload are both answered without failure (not HTTP 500).
C7_ConflictNotFailure ==
    [][\A t \in Threads :
          /\ (th[t].pc = "h_already" /\ th'[t].pc = "done") => th'[t].resp.code # 500
          /\ (th[t].pc = "k_chk_status" /\ Status[th[t].id] = DEAD /\ th'[t].pc = "done")
                => th'[t].resp.code # 500]_vars

C9_FailedStopReconciles ==
    [][\A t \in Threads :
          (/\ th[t].pc \in {"k_signal", "k_fork", "k_wait"}
           /\ th'[t].pc = "done" /\ th'[t].resp.code = 500) =>
              Status'[th[t].id] = IF LiveCount(th[t].id)' > 0 THEN RUNNING ELSE DEAD]_vars

\* C10: whenever the process of a workload recorded as Running has exited, the
\* recorded status becomes Dead without any further control request.  In the form a
\* finite run refutes: in a state where a workload is recorded as Running, has no
\* live process and no request is in flight, the server still has a step to take.
C10_ReaperMarksDead ==
    \A i \in Cmds : (Status[i] = RUNNING /\ LiveCount(i) = 0 /\ AllIdle) => ENABLED ServerNext

\* the same as a temporal formula, for LiveSpec
ReaperLeadsToDead ==
    \A i \in Cmds : (Status[i] = RUNNING /\ LiveCount(i) = 0) ~> (Status[i] = DEAD)

\* C11: every child forked by start (the target, or the "docker start" helper) that
\* has exited is waited on and reclaimed by the server, without any further request.
\* In the form a finite run refutes: in a state where such a child has exited and is
\* not reaped and no request is in flight, the server still has a step to take.
ExitedStartChildren == {p \in Pids : procs[p].st = "zombie" /\ procs[p].kind \in {"target", "dstart"}}

C11_ExitedChildrenReaped ==
    (ExitedStartChildren # {} /\ AllIdle) => ENABLED ServerNext

\* the same as a temporal formula, for LiveSpec
ExitedLeadsToReaped ==
    \A p \in Pids : (p \in ExitedStartChildren) ~> (procs[p].st = "free")

\* C12: in a sequential run, a stop or kill request on a Running mode D workload
\* forks one helper, is not answered while that helper is still running, succeeds
\* exactly when the helper exited with code 0 (then the workload is Dead with pid -1),
\* and otherwise leaves status and pid as they were: no step of the request before
\* the success is known writes them.
DStop(t) == th[t].fn \in {"stop", "kill", "end"} /\ th[t].id \in Cmds /\ Mode[th[t].id] = "D"

StopHelpers(i) == {p \in Pids : procs[p].st # "free" /\ procs[p].owner = i
                               /\ procs[p].kind \in {"dstop", "dkill"}}

C12_ContainerStopWaits ==
    /\ [](\A t \in Threads : (DStop(t) /\ th[t].pc = "done") =>
            /\ StopHelpers(th[t].id) = {}
            /\ th[t].spawned <= 1
            /\ th[t].resp.code = 200 =>
                  th[t].spawned = 1 /\ Status[th[t].id] = DEAD /\ Pid[th[t].id] = -1)
    /\ [][\A t \in Threads : DStop(t) =>
            /\ (th[t].pc = "k_wait" /\ th'[t] # th[t]) =>
                  /\ procs[th[t].pid].st = "zombie" /\ procs'[th[t].pid].st = "free"
                  /\ IF procs[th[t].pid].code = 0
                     THEN th'[t].pc = "k_wstatus"
                     ELSE th'[t].pc = "done" /\ th'[t].resp.code = 500
            /\ (th[t].pc = "k_fork" /\ th'[t] # th[t]) =>
                  \/ th'[t].pc = "k_wait" /\ th'[t].spawned = 1
                         /\ procs'[th'[t].pid].st = "live"
                         /\ th'[t].pid \in StopHelpers(th[t].id)'
                         /\ Cardinality(StopHelpers(th[t].id)') = 1
                  \/ th'[t].pc = "done" /\ th'[t].resp.code = 500 /\ procs' = procs
            /\ (th[t].pc \in {"k_wstatus", "k_wpid"} /\ th'[t].pc = "done") =>
                  th'[t].resp.code = 200
            /\ th[t].pc \in {"k_chk_status", "k_chk_pid", "k_fork", "k_wait"} =>
                  UNCHANGED <<Status, Pid>>]_vars

C12_Witness ==
    \E t \in Threads :
        /\ DStop(t) /\ th[t].pc = "done" /\ th[t].resp.code = 200 /\ th[t].spawned = 1
        /\ prev.fn = "start" /\ prev.id = th[t].id /\ prev.code = 200
        /\ Status[th[t].id] = DEAD /\ Pid[th[t].id] = -1

\* the other outcome: the helper exited with a code other than 0
C12_FailedHelper ==
    \E t \in Threads :
        /\ DStop(t) /\ th[t].pc = "done" /\ th[t].resp.code = 500 /\ th[t].spawned = 1
        /\ Status[th[t].id] = RUNNING /\ Pid[th[t].id] = prev.pid

\* C13: a stop or kill request on a mode D workload returns even when its helper
\* never exits (a timeout ends the wait).  In the form a finite run refutes: a
\* handler that waits for its helper always has a step it can take, whether or not
\* the helper has exited.
C13_ContainerStopReturns ==
    \A t \in Threads : th[t].pc = "k_wait" => ENABLED Step(t)

\* the same as a temporal formula, for LiveSpec (nothing obliges the helper to exit)
WaitLeadsToDone ==
    \A t \in Threads : (th[t].pc = "k_wait") ~> (th[t].pc = "done")

\* C14: fn chooses the force flag.  A request fn=stop sends only SIGTERM (mode C:
\* the signalled process is not ended by the signal) or forks only the "docker stop"
\* helper (mode D); a request fn=kill sends only SIGKILL (the signalled live process
\* is ended at once) or forks only the "docker kill" helper.
SentBy(t) == IF th[t].sig = <<>> THEN "none" ELSE th[t].sig[2]

C14_FnChoosesForce ==
    /\ [](\A t \in Threads :
            /\ th[t].fn = "stop" => SentBy(t) \in {"none", "SIGTERM"}
            /\ th[t].fn = "kill" => SentBy(t) \in {"none", "SIGKILL"})
    /\ [][\A t \in Threads :
            /\ (th[t].pc = "k_signal" /\ th'[t].pc = "k_wstatus") =>
                  /\ th[t].fn = "stop" => procs' = procs
                  /\ th[t].fn = "kill" =>
                        \A p \in SignalTargets(Pid[th[t].id]) : procs'[p].st = "zombie"
            /\ (th[t].pc = "k_fork" /\ th'[t].pc = "k_wait") =>
                  /\ th[t].fn = "stop" => procs'[th'[t].pid].kind = "dstop"
                  /\ th[t].fn = "kill" => procs'[th'[t].pid].kind = "dkill"]_vars

C14_Witness ==
    \E t \in Threads :
        /\ th[t].pc = "done" /\ th[t].fn = "stop" /\ th[t].resp.code = 200
        /\ SentBy(t) = "SIGTERM" /\ procs[th[t].sig[1]].st = "live"

\* the forceful outcomes: a target ended by SIGKILL, a "docker kill" helper forked
C14_KillWitness ==
    \E t \in Threads :
        /\ th[t].pc = "done" /\ th[t].fn = "kill" /\ th[t].resp.code = 200
        /\ SentBy(t) = "SIGKILL" /\ procs[th[t].sig[1]].st = "zombie"

C14_HelperWitness ==
    \E t \in Threads, f \in {"stop", "kill"} :
        /\ th[t].pc = "k_wait" /\ th[t].fn = f
        /\ procs[th[t].pid].kind = IF f = "kill" THEN "dkill" ELSE "dstop"

\* ---- the id parameter as the interface describes it (a decimal integer) ----
Unsigned(s) == IF s # <<>> /\ Head(s) \in {"-", "+"} THEN Tail(s) ELSE s

RECURSIVE StripZeros(_)
StripZeros(s) == IF Len(s) > 1 /\ Head(s) = "0" THEN StripZeros(Tail(s)) ELSE s

RECURSIVE DecValue(_)
DecValue(s) == IF s = <<>> THEN 0 ELSE DecValue(SubSeq(s, 1, Len(s) - 1)) * 10 + DigitVal(s[Len(s)])

\* an optional sign and one or more digits, nothing else
WellFormedInt(s) == Unsigned(s) # <<>> /\ \A k \in 1 .. Len(Unsigned(s)) : IsDigit(Unsigned(s)[k])

\* ten digits or more: beyond every workload count
Huge(s) == Len(StripZeros(Unsigned(s))) > 9

\* the integer written by s lies outside [0, NCmds)
OutsideRange(s) ==
    /\ WellFormedInt(s)
    /\ \/ Huge(s)
       \/ LET v == DecValue(StripZeros(Unsigned(s)))
          IN  IF Head(s) = "-" THEN v > 0 ELSE v >= NCmds

\* the request of thread t was rejected before any operation of ProcessRunner
RejectedWith(t, c) ==
    /\ th[t].pc = "done" /\ th[t].resp.code = c
    /\ th[t].id = -1 /\ th[t].spawned = 0 /\ th[t].sig = <<>>

\* C15: a control request with fn present (any value) and an id that is a well-formed
\* integer outside [0, workload count) is answered 404 at once: no operation of
\* ProcessRunner runs, nothing is forked or signalled, and the status and pid of every
\* workload are unchanged.
C15_Case(t) == th[t].fn \in FnParams /\ OutsideRange(th[t].idStr)

C15_OutOfRange404 ==
    /\ [](\A t \in Threads : C15_Case(t) => RejectedWith(t, 404))
    /\ [][\A t \in Threads : (th[t].pc = "idle" /\ C15_Case(t)') =>
            UNCHANGED <<Status, Pid, procs, container>>]_vars

\* C15 as amended: the same for the ids that fit an int; an id beyond the int range
\* is answered 400, with no effect either.
C15_IntOutOfRange404 ==
    /\ [](\A t \in Threads : C15_Case(t) =>
            RejectedWith(t, IF Huge(th[t].idStr) THEN 400 ELSE 404))
    /\ [][\A t \in Threads : (th[t].pc = "idle" /\ C15_Case(t)') =>
            UNCHANGED <<Status, Pid, procs, container>>]_vars

C15_IntWitness ==
    \E t \in Threads :
        /\ C15_Case(t) /\ th[t].idStr = <<"2">> /\ th[t].fn = "kill" /\ th[t].resp.code = 404
        /\ Status[0] = RUNNING /\ Status[1] = RUNNING

\* C16: a control request in which fn or id is missing, or in which id is not a
\* number, is answered 400 at once: no operation of ProcessRunner runs and the status
\* and pid of every workload are unchanged.
IsControl(t) == th[t].fn \in FnParams \cup {MissingFn}

C16_Case(t) ==
    /\ IsControl(t)
    /\ th[t].fn = MissingFn \/ th[t].idStr = MissingId \/ ~WellFormedInt(th[t].idStr)

C16_MalformedRejected ==
    /\ [](\A t \in Threads : C16_Case(t) => RejectedWith(t, 400))
    /\ [][\A t \in Threads : (th[t].pc = "idle" /\ C16_Case(t)') =>
            UNCHANGED <<Status, Pid, procs, container>>]_vars

\* what holds of the code: the same when fn or id is missing or id does not begin
\* with a number
C16_NoNumberRejected ==
    /\ [](\A t \in Threads :
            (C16_Case(t) /\ (th[t].idStr \in {MissingId, <<"x">>} \/ th[t].fn = MissingFn))
                => RejectedWith(t, 400))
    /\ [][\A t \in Threads : (th[t].pc = "idle" /\ C16_Case(t)') =>
            UNCHANGED <<Status, Pid, procs, container>>]_vars

\* C17: a control request whose fn is not one of start, stop, kill, status is
\* answered 400 (404 when its id is an integer out of range: the id is tested first,
\* C15), changes no workload's status or pid and sends no signal.
C17_Rejected(t) ==
    RejectedWith(t, IF OutsideRange(th[t].idStr) /\ ~Huge(th[t].idStr) THEN 404 ELSE 400)

C17_EndIsStop ==
    \E t \in Threads :
        /\ th[t].fn = "end" /\ th[t].pc = "done" /\ th[t].resp.code = 200
        /\ SentBy(t) = "SIGTERM" /\ Status[th[t].id] = DEAD

\* C18: a request fn=status is a pure read.  No step of it forks, signals, waits or
\* writes: the status and pid of every workload, the process table and the containers
\* are unchanged; in a sequential run its answer is 200 with the status and the pid
\* recorded for its id.
StatusReq(t) == th[t].fn = "status" /\ th[t].id \in Cmds

C18_StatusPureRead ==
    /\ [](\A t \in Threads : (StatusReq(t) /\ th[t].pc = "done") =>
            LET e == th[t].resp.body[1]
            IN  /\ th[t].resp.code = 200 /\ Len(th[t].resp.body) = 1
                /\ e.id = th[t].id
                /\ e.status = "RUNNING" <=> Status[th[t].id] = RUNNING
                /\ e.status = "DEAD" <=> Status[th[t].id] = DEAD
                /\ e.pid = Pid[th[t].id]
                /\ th[t].spawned = 0 /\ th[t].sig = <<>>)
    /\ [][\A t \in Threads : (StatusReq(t)' /\ th'[t] # th[t] /\ th'[t].pc # "idle") =>
            UNCHANGED <<Status, Pid, procs, container>>]_vars

C18_Witness ==
    \E t \in Threads :
        /\ StatusReq(t) /\ th[t].pc = "done" /\ th[t].resp.body[1].status = "RUNNING"
        /\ th[t].resp.body[1].pid > 0 /\ LiveCount(th[t].id) = 1

\* C19: a list request that runs concurrently with start and stop requests returns
\* the table as it stood at one instant; in particular no element of its answer shows
\* DEAD with a pid > 0 or RUNNING with pid -1.
ListDone(t) == th[t].fn = "list" /\ th[t].pc = "done"

C19_ListSnapshot ==
    \A t \in Threads : ListDone(t) =>
        \A k \in 1 .. Len(th[t].resp.body) :
            LET e == th[t].resp.body[k]
            IN  /\ e.status = "RUNNING" => e.pid > 0
                /\ e.status = "DEAD" => e.pid = -1

\* a pair that no instant of the table ever held: the status read before a kill
\* wrote it, the pid after
C19_TornRead ==
    \E t \in Threads : ListDone(t) /\ \E k \in 1 .. Len(th[t].resp.body) :
        th[t].resp.body[k].status = "RUNNING" /\ th[t].resp.body[k].pid = -1

\* C20: in a sequential run, whatever the state of the table, a list request is
\* answered 200 with one element per configured workload, in ascending order of id,
\* the element at position i carrying id i and the status, mode and pid recorded for
\* workload i.
C20_ListContent ==
    \A t \in Threads : ListDone(t) =>
        /\ th[t].resp.code = 200
        /\ Len(th[t].resp.body) = NCmds
        /\ \A i \in Cmds :
              LET e == th[t].resp.body[i + 1]
              IN  /\ e.id = i
                  /\ e.mode = Mode[i]
                  /\ e.status = "RUNNING" <=> Status[i] = RUNNING
                  /\ e.status = "DEAD" <=> Status[i] = DEAD
                  /\ e.pid = Pid[i]

C20_Witness ==
    \E t \in Threads :
        /\ ListDone(t)
        /\ \E i, j \in Cmds : /\ th[t].resp.body[i + 1].status = "RUNNING"
                               /\ th[t].resp.body[i + 1].pid > 0
                               /\ th[t].resp.body[j + 1].status = "DEAD"

\* ------------------------------------------------------------ faults
\* Both handlers run inside try { ... } catch (const std::exception&).  What can throw
\* there is the building of strings (std::bad_alloc, std::length_error): in the loop
\* of list, in the status and "already running" branches, and where a response is
\* set; ProcessRunner::start and ProcessRunner::kill throw nothing in the parent.  The
\* catch block itself is taken to succeed.
InternalError == Resp(500, "Internal server error")

FaultPoints == {"l_status", "l_pid", "h_already", "st_status", "st_pid", "done"}

\* mutant: the exception is not caught and leaves the handler: std::terminate
FaultUncaught(t) ==
    /\ th[t].pc \in FaultPoints
    /\ th[t].resp # InternalError
    /\ th' = [u \in Threads |-> [IdleThread EXCEPT !.pc = "down"]]
    /\ UNCHANGED <<boot, Mode, Status, Pid, procs, container, prev, nreq>>

\* an exception is raised in the handler of thread t and caught by its catch block
Fault(t) ==
    /\ th[t].pc \in FaultPoints
    /\ th[t].resp # InternalError
    /\ Finish(t, InternalError)
    /\ UNCHANGED <<boot, Mode, Status, Pid, procs, container, prev, nreq>>

\* sequential runs in which handlers may fault
FaultNext == SeqNext \/ \E t \in Threads : Fault(t)

FaultSpec == Init /\ [][FaultNext]_vars

\* C21: a fault raised while a list or control request is handled does not end the
\* server: the request is answered 500 with the generic message, what the request had
\* done before stays, no other thread is touched, the answer is sent and, as long as
\* requests are accepted, a next request can begin.
C21_FaultsAnswered500 ==
    /\ [](\A t \in Threads : th[t].pc # "down")
    /\ [](\A t \in Threads : th[t].resp = InternalError => th[t].pc = "done" /\ ENABLED Reply(t))
    /\ []((AllIdle /\ nreq < MaxReqs) => ENABLED (\E t \in Threads : Begin(t)))
    /\ [][\A t \in Threads : (th[t].resp # InternalError /\ th'[t].resp = InternalError) =>
            /\ \A u \in Threads \ {t} : th'[u] = th[u]
            /\ th'[t].spawned = th[t].spawned /\ th'[t].sig = th[t].sig
            /\ UNCHANGED <<Status, Pid, procs, container>>]_vars

\* a list request answered 200 after a start request that had spawned its child and
\* then faulted while building its answer
C21_Witness ==
    \E t \in Threads :
        /\ ListDone(t) /\ th[t].resp.code = 200
        /\ prev.fn = "start" /\ prev.code = 500 /\ prev.spawned = 1
        /\ Status[prev.id] = RUNNING

\* ------------------------------------------------------------ startup
\* configuration files: a count line and up to MaxGroups groups of four lines
\* (description, mode, target, working directory), cut off after any line
MaxGroups == 2

CountLines == {<<"0">>, <<"1">>, <<"2">>, <<"-", "1">>, <<"x">>, <<"1", "x">>}

LineChoices(k) ==
    IF k = 1 THEN CountLines
    ELSE CASE (k - 2) % 4 = 0 -> {<<"a">>, <<>>}
           [] (k - 2) % 4 = 1 -> {<<"C">>, <<"D">>, <<"X">>, <<>>}
           [] (k - 2) % 4 = 2 -> {<<"p">>, <<>>}
           [] OTHER -> {<<"f">>, <<>>}

RECURSIVE FilesOfLen(_)
FilesOfLen(n) ==
    IF n = 0 THEN {<<>>}
    ELSE {Append(f, l) : f \in FilesOfLen(n - 1), l \in LineChoices(n)}

Files(g) == UNION {FilesOfLen(n) : n \in 0 .. (1 + 4 * g)}

\* main before loadConfiguration: g_commands is empty, no ProcessRunner exists
LoadInit ==
    /\ boot \in {Main("start", f, <<>>) : f \in Files(MaxGroups) \cup {DefaultFile}}
    /\ Mode = <<>> /\ Status = <<>> /\ Pid = <<>>
    /\ procs = [p \in Pids |-> FreeProc]
    /\ container = [i \in Cmds |-> FALSE]
    /\ th = [t \in Threads |-> IdleThread]
    /\ prev = NoPrev
    /\ nreq = 0

\* main: loadConfiguration; on failure return 1; else the ProcessRunner is made (its
\* constructor sets every Status to DEAD and every Pid to -1) and the server listens
Startup ==
    /\ boot.pc = "start"
    /\ LET r == LoadConfiguration(boot.file)
       IN  /\ boot' = IF r.ok THEN Serving(boot.file)
                       ELSE Main("failed", boot.file, <<>>)
           /\ Mode' = [i \in 0 .. (Len(r.cmds) - 1) |-> r.cmds[i + 1].Mode]
           /\ Status' = [i \in 0 .. (Len(r.cmds) - 1) |-> DEAD]
           /\ Pid' = [i \in 0 .. (Len(r.cmds) - 1) |-> -1]
    /\ UNCHANGED <<procs, container, th, prev, nreq>>

LoadNext == Startup

LoadSpec == LoadInit /\ [][LoadNext]_vars

\* the state in which the runs with requests begin is the one Startup leaves
StartupReachesInit == ~Init

\* ---- the configuration format as the interface describes it ----
CountOf(f) == DecValue(StripZeros(Unsigned(f[1])))

\* a count that is not an integer or is negative, fewer than count groups of four
\* lines, or a group with an empty description, an empty target or a mode line that
\* is not the character C or D
BadConfig(f) ==
    \/ f = <<>>
    \/ ~WellFormedInt(f[1])
    \/ Head(f[1]) = "-"
    \/ /\ WellFormedInt(f[1])
       /\ \/ Len(f) < 1 + 4 * CountOf(f)
          \/ \E g \in 0 .. (CountOf(f) - 1) :
                \/ f[2 + 4 * g] = <<>>
                \/ f[3 + 4 * g] \notin {<<"C">>, <<"D">>}
                \/ f[4 + 4 * g] = <<>>

\* C22: with a configuration that has a malformed or negative count, an unknown mode
\* character, an empty description or target, or fewer than count complete groups,
\* startup fails: the server never serves.
C22_BadConfigFailsStartup ==
    BadConfig(boot.file) => boot.pc # "serving"

\* what holds of the code: the same unless the count line is a number followed by
\* other characters, or a mode line is blank (the extraction of the mode character
\* then goes on to the following lines)
BlankModeLine(f) == \E k \in 1 .. Len(f) : k > 1 /\ (k - 2) % 4 = 1 /\ Blank(f[k])

C22_BadConfigButPrefixCount ==
    (/\ BadConfig(boot.file)
     /\ boot.file = <<>> \/ boot.file[1] # <<"1", "x">>
     /\ ~BlankModeLine(boot.file))
        => boot.pc # "serving"

C22_FailedWitness ==
    /\ boot.pc = "failed" /\ Len(boot.file) = 9 /\ boot.file[1] = <<"2">>
    /\ boot.file[7] = <<"X">>

C22_ServingWitness ==
    /\ boot.pc = "serving" /\ Len(boot.cmds) = 2 /\ boot.cmds[2].Folder = <<>>
    /\ Status = [i \in 0 .. 1 |-> DEAD] /\ Mode[0] = "C" /\ Mode[1] = "D"

\* C23: once the server serves, no list or control request changes the number of
\* workloads, the position of a workload, or its description, mode, target or working
\* directory: they stay as loaded, while status and pid change.
C23_SpecFieldsImmutable ==
    /\ [](/\ boot = Serving(DefaultFile)
          /\ Len(boot.cmds) = NCmds
          /\ DOMAIN Mode = Cmds /\ DOMAIN Status = Cmds /\ DOMAIN Pid = Cmds
          /\ \A i \in Cmds : Mode[i] = boot.cmds[i + 1].Mode
                              /\ boot.cmds[i + 1].Desc = DefaultFile[2 + 4 * i]
                              /\ boot.cmds[i + 1].Path = DefaultFile[4 + 4 * i]
                              /\ boot.cmds[i + 1].Folder = DefaultFile[5 + 4 * i])
    /\ [][boot' = boot /\ Mode' = Mode]_vars

C23_Witness ==
    /\ prev.fn \in {"stop", "kill", "end"} /\ prev.code = 200
    /\ Status[prev.id] = DEAD /\ Pid[prev.id] = -1
    /\ \E i \in Cmds : Status[i] = RUNNING /\ Pid[i] > 0
    /\ nreq = MaxReqs /\ AllIdle

\* ------------------------------------------------------------ shutdown
\* server.listen returns (the pool threads have been joined), main returns and the
\* global g_processRunner is destroyed.  ~ProcessRunner runs on the main thread; its
\* calls of ProcessRunner::kill take the steps of kill above, in the frame DtorFrame.
DtorFrame == CHOOSE t \in Threads : \A u \in Threads : t <= u

ListenReturns ==
    /\ boot.pc = "serving"
    /\ AllIdle
    /\ boot' = [boot EXCEPT !.pc = "dtor", !.i = 0,
                             !.at = [i \in Cmds |-> [Status |-> Status[i], Pid |-> Pid[i]]]]
    /\ UNCHANGED <<Mode, Status, Pid, procs, container, th, prev, nreq>>

\* if (commands_[i].Status == RUNNING && commands_[i].Pid > 0) kill(i, false);
DtorTest ==
    /\ boot.pc = "dtor"
    /\ AllIdle
    /\ boot.i < NCmds
    /\ boot' = [boot EXCEPT !.i = @ + 1]
    /\ IF Status[boot.i] = RUNNING /\ Pid[boot.i] > 0
       THEN th' = [th EXCEPT ![DtorFrame] =
                      [IdleThread EXCEPT !.pc = "k_chk_status", !.fn = "dtor", !.id = boot.i]]
       ELSE UNCHANGED th
    /\ UNCHANGED <<Mode, Status, Pid, procs, container, prev, nreq>>

\* kill(i, false) has returned to the destructor (its result is not used)
DtorReturn ==
    /\ boot.pc = "dtor"
    /\ th[DtorFrame].pc = "done"
    /\ boot' = [boot EXCEPT !.log = Append(@, [id |-> th[DtorFrame].id,
                                                fn |-> th[DtorFrame].fn,
                                                sig |-> th[DtorFrame].sig,
                                                spawned |-> th[DtorFrame].spawned])]
    /\ th' = [th EXCEPT ![DtorFrame] = IdleThread]
    /\ UNCHANGED <<Mode, Status, Pid, procs, container, prev, nreq>>

\* the loop is over: the process exits
DtorEnd ==
    /\ boot.pc = "dtor"
    /\ AllIdle
    /\ boot.i = NCmds
    /\ boot' = [boot EXCEPT !.pc = "exited"]
    /\ UNCHANGED <<Mode, Status, Pid, procs, container, th, prev, nreq>>

\* runs that may end with the destruction of the ProcessRunner
ShutNext == Next \/ ListenReturns \/ DtorTest \/ DtorReturn \/ DtorEnd

ShutSpec == Init /\ [][ShutNext]_vars

\* C24: when the ProcessRunner is destroyed, the destructor calls kill(i, false) once
\* for every workload that was Running when it began and for no other; such a call
\* sends SIGTERM to the recorded pid (mode C) or forks the "docker stop" helper
\* (mode D), never SIGKILL or "docker kill".
RunningAtShutdown == {i \in Cmds : boot.at[i].Status = RUNNING}

RecordedAtShutdown == {i \in RunningAtShutdown : boot.at[i].Pid > 0}

DtorGraceful ==
    /\ \A k \in 1 .. Len(boot.log) :
          /\ boot.log[k].fn = "dtor"
          /\ IF Mode[boot.log[k].id] = "C"
             THEN boot.log[k].sig # <<>> /\ boot.log[k].sig[2] = "SIGTERM"
             ELSE boot.log[k].sig = <<>>
    /\ boot.pc = "dtor" => \A t \in Threads :
          /\ SentBy(t) # "SIGKILL"
          /\ th[t].pc = "k_wait" => procs[th[t].pid].kind = "dstop"

C24_DtorStopsGracefully ==
    /\ boot.pc = "exited" =>
          /\ {boot.log[k].id : k \in 1 .. Len(boot.log)} = RunningAtShutdown
          /\ Len(boot.log) = Cardinality(RunningAtShutdown)
    /\ DtorGraceful

\* what holds of the code: the same for the workloads that were Running with a
\* recorded pid > 0; a workload left Running with pid -1 is passed over
C24_DtorStopsRecorded ==
    /\ boot.pc = "exited" =>
          /\ {boot.log[k].id : k \in 1 .. Len(boot.log)} = RecordedAtShutdown
          /\ Len(boot.log) = Cardinality(RecordedAtShutdown)
    /\ DtorGraceful

C24_Witness ==
    /\ boot.pc = "exited" /\ Len(boot.log) = 1 /\ Cardinality(RunningAtShutdown) = 1
    /\ \E i \in Cmds : boot.at[i].Status = DEAD
    /\ boot.log[1].sig # <<>> /\ boot.log[1].sig[2] = "SIGTERM"

\* the process has exited and a workload that was Running was never signalled
C24_RunningPassedOver ==
    /\ boot.pc = "exited"
    /\ \E i \in RunningAtShutdown : \A k \in 1 .. Len(boot.log) : boot.log[k].id # i

\* both workloads Running at shutdown: one SIGTERM, one "docker stop" helper
C24_BothWitness ==
    /\ boot.pc = "exited" /\ Len(boot.log) = 2
    /\ \E k \in 1 .. 2 : boot.log[k].spawned = 1

\* C25: the status and the pid of a workload change only in the writes of
\* ProcessRunner::start and ProcessRunner::kill made for a well-formed request for that
\* workload: Dead becomes Running only in a start that forked a child, whose pid it has
\* recorded; Running becomes Dead only in a stop (fn stop, kill or end) whose signal or
\* helper succeeded, and that stop then answers 200; list, status and rejected requests
\* write nothing.
WritesOf(t) ==
    IF th[t].fn = "start" THEN {"s_wpid", "s_wstatus"}
    ELSE IF IsStopFn(th[t].fn) THEN {"k_wstatus", "k_wpid"}
    ELSE {}

C25_WritesOnlyInStartAndStop ==
    [][/\ \A i \in Cmds :
             (Status'[i] # Status[i] \/ Pid'[i] # Pid[i]) =>
                 \E t \in Threads :
                     /\ th'[t] # th[t]
                     /\ th[t].id = i
                     /\ th[t].pc \in WritesOf(t)
                     /\ (Pid'[i] # Pid[i]) => th[t].pc \in {"s_wpid", "k_wpid"}
                     /\ (Status[i] = DEAD /\ Status'[i] = RUNNING) =>
                            /\ th[t].pc = "s_wstatus"
                            /\ th[t].spawned = 1
                            /\ th[t].pid > 0
                            /\ procs[th[t].pid].kind \in {"target", "dstart"}
                            /\ procs[th[t].pid].owner = i
                     /\ (Status[i] = RUNNING /\ Status'[i] = DEAD) =>
                            /\ th[t].pc = "k_wstatus"
                            /\ th[t].sig # <<>> \/ th[t].spawned = 1
       /\ \A t \in Threads :
             (th[t].pc = "k_wpid" /\ th'[t] # th[t]) =>
                 th'[t].pc = "done" /\ th'[t].resp.code = 200]_vars

\* both transitions have happened: a start made workload 0 Running, a stop made it Dead
C25_Witness ==
    /\ prev # NoPrev /\ prev.fn = "start" /\ prev.code = 200 /\ prev.spawned = 1
    /\ \E t \in Threads :
          /\ IsStopFn(th[t].fn) /\ th[t].pc = "done" /\ th[t].resp.code = 200
          /\ th[t].id = prev.id /\ Status[prev.id] = DEAD /\ Pid[prev.id] = -1

\* C26: a start of a mode C workload whose fork succeeded never waits for the child:
\* its two writes are enabled whatever the child does, also when the child has already
\* exited (exec or chdir failed), and it answers 200 with the child's pid > 0, having
\* recorded that pid and the status Running.
NativeStartForked(t) ==
    /\ th[t].fn = "start" /\ th[t].id \in Cmds /\ th[t].spawned = 1
    /\ Mode[th[t].id] = "C"

C26_NativeStartFireAndForget ==
    \A t \in Threads : NativeStartForked(t) =>
        /\ th[t].pc \in {"s_wpid", "s_wstatus", "done"}
        /\ th[t].pc # "done" =>
               /\ th[t].pid > 0
               /\ procs[th[t].pid].kind = "target" /\ procs[th[t].pid].owner = th[t].id
               /\ ENABLED (StartWritePid(t) \/ StartWriteStatus(t))
        /\ th[t].pc = "done" =>
               /\ th[t].resp.code = 200 /\ th[t].resp.pid > 0
               /\ procs[th[t].resp.pid].kind = "target"
               /\ procs[th[t].resp.pid].owner = th[t].id
               /\ Status[th[t].id] = RUNNING /\ Pid[th[t].id] = th[t].resp.pid

\* the child had exited before start recorded it, and start still answered 200
C26_Witness ==
    \E t \in Threads :
        /\ NativeStartForked(t) /\ th[t].pc = "done"
        /\ th[t].resp.code = 200 /\ th[t].resp.pid > 0
        /\ procs[th[t].resp.pid].st = "zombie"

\* the same during the start: the child is gone while start still has its writes to do
C26_EarlyExitWitness ==
    \E t \in Threads :
        /\ NativeStartForked(t) /\ th[t].pc = "s_wpid"
        /\ procs[th[t].pid].st = "zombie"

\* C27: a control request is dispatched to a workload only when its whole id parameter
\* is a well-formed integer within [0, workload count); an id that only begins with
\* digits, or that is beyond the int range, is answered 400 and reaches no workload.
C27_Dispatched(t) == th[t].pc # "idle" /\ th[t].id \in Cmds

C27_Case(t) == th[t].fn \in FnParams /\ th[t].idStr # MissingId

C27_WholeIdValidated ==
    \A t \in Threads : C27_Case(t) =>
        /\ C27_Dispatched(t) =>
               WellFormedInt(th[t].idStr) /\ ~OutsideRange(th[t].idStr)
        /\ (~WellFormedInt(th[t].idStr) \/ Huge(th[t].idStr)) => RejectedWith(t, 400)

\* what holds of the code: the workload reached is the one named by the longest numeric
\* prefix of the id, and an id beyond the int range is answered 400
C27_PrefixValidated ==
    \A t \in Threads : C27_Case(t) =>
        /\ C27_Dispatched(t) =>
               /\ Stoi(th[t].idStr).ok /\ Stoi(th[t].idStr).val = th[t].id
        /\ (~Stoi(th[t].idStr).ok \/ Huge(th[t].idStr)) => RejectedWith(t, 400)

\* the id "1x" has started workload 1
C27_PrefixDispatched ==
    \E t \in Threads :
        /\ th[t].idStr = <<"1", "x">> /\ th[t].fn = "start" /\ th[t].pc = "done"
        /\ th[t].id = 1 /\ th[t].resp.code = 200 /\ Status[1] = RUNNING

\* C28: under every interleaving of requests, each call of ::kill made by
\* ProcessRunner::kill for a mode C workload passes a pid > 0 (the recorded pid is
\* still the positive one that the call's own test of cmd.Pid saw), never the -1 that
\* a stop completing in between has written.
C28_SignalPidPositive ==
    [][\A t \in Threads :
          (th[t].pc = "k_signal" /\ th'[t] # th[t]) => Pid[th[t].id] > 0]_vars

\* a stop has called ::kill(-1, sig) and the call succeeded
C28_BroadcastSent ==
    \E t \in Threads : th[t].sig # <<>> /\ th[t].sig[1] = -1

\* C29: in every sequential run, a mode C workload has at most one live process
\* forked for it by start; in particular the process that a successful graceful stop
\* signalled is no longer alive when the next start forks a new one.
LiveTargets(i) == {p \in StartChildren(i) : procs[p].st = "live" /\ procs[p].kind = "target"}

C29_AtMostOneLiveTarget ==
    \A i \in Cmds : Mode[i] = "C" => Cardinality(LiveTargets(i)) <= 1

\* a start answered after a successful stop (SIGTERM) of the same workload, with the
\* signalled process still alive beside the new one
C29_TwoLiveAfterRestart ==
    \E t \in Threads :
        /\ prev # NoPrev /\ prev.fn \in {"stop", "end"} /\ prev.code = 200
        /\ th[t].fn = "start" /\ th[t].id = prev.id /\ th[t].pc = "done"
        /\ th[t].resp.code = 200 /\ Mode[prev.id] = "C"
        /\ Cardinality(LiveTargets(prev.id)) = 2

\* ------------------------------------------------------------ a busy server
\* The state in which the request fn=start&id=1 has been answered: the "docker start"
\* helper forked for workload 1 holds the first pid.  Runs from this state show what
\* MaxReqs further requests do while another workload has a process (nreq counts
\* only those further requests).
StartedOne ==
    /\ boot = Serving(DefaultFile)
    /\ Mode = [i \in Cmds |-> IF i % 2 = 0 THEN "C" ELSE "D"]
    /\ Status = [i \in Cmds |-> IF i = 1 THEN RUNNING ELSE DEAD]
    /\ Pid = [i \in Cmds |-> IF i = 1 THEN 1 ELSE -1]
    /\ procs = [p \in Pids |-> IF p = 1 THEN LiveProc(1, "dstart") ELSE FreeProc]
    /\ container = [i \in Cmds |-> FALSE]
    /\ th = [t \in Threads |-> IdleThread]
    /\ prev = [fn |-> "start", id |-> 1, code |-> 200, pid |-> 1, spawned |-> 1]

BusyInit == StartedOne /\ nreq = 0

BusySpec == BusyInit /\ [][Next]_vars

\* under SeqSpec: violated, that is, the state StartedOne is reached from Init
StartedOneUnreachable == ~StartedOne

\* C30: every signal that a stop or kill of a mode C workload delivers reaches only a
\* process that start forked for that same workload and that has not been reaped:
\* never a process of another workload, never a pid that has been handed out again.
C30_SignalsOwnChild ==
    [][\A t \in Threads :
          (th[t].pc = "k_signal" /\ th'[t].pc = "k_wstatus") =>
              /\ SignalTargets(Pid[th[t].id]) # {}
              /\ \A p \in SignalTargets(Pid[th[t].id]) :
                    /\ p \in StartChildren(th[t].id)
                    /\ procs[p].kind = "target"]_vars

\* a kill of workload 0 has sent SIGKILL to every process, the helper of workload 1
\* among them
C30_OtherWorkloadSignalled ==
    \E t \in Threads :
        /\ th[t].pc = "k_wstatus" /\ th[t].sig = <<-1, "SIGKILL">> /\ th[t].id = 0
        /\ \E p \in SignalTargets(-1) : procs[p].owner = 1 /\ procs[p].kind = "dstart"

\* C31: a step of a start, stop, kill or status request for workload id leaves the
\* status and pid of every other workload as they are, forks no process for another
\* workload, changes no process of another workload and signals none, whether the
\* request succeeds or fails.
OwnedBy(j) == {p \in Pids : procs[p].owner = j}

C31_OtherWorkloadsUntouched ==
    [][\A t \in Threads :
          (th'[t] # th[t] /\ th[t].id \in Cmds) =>
              \A j \in Cmds \ {th[t].id} :
                  /\ Status'[j] = Status[j] /\ Pid'[j] = Pid[j]
                  /\ \A p \in Pids : (procs[p].owner = j \/ procs'[p].owner = j) =>
                                          procs'[p] = procs[p]
                  /\ th[t].pc = "k_signal" => SignalTargets(Pid[th[t].id]) \cap OwnedBy(j) = {}]_vars

\* C32: two control requests on different workloads that run concurrently end as they
\* end when run one after the other.  From the state StartedOne (workload 0 Dead and
\* never started, workload 1 Running with pid 1), whatever the interleaving of a
\* request on workload 0 with a request on workload 1, each has the response, the
\* status and pid, and the children that the same request gives when it runs alone
\* (pids are compared as the identity of the child forked, not as numbers).
Alone0(t) ==
    /\ th[t].sig = <<>>
    /\ CASE th[t].fn = "start" ->
               \/ /\ th[t].spawned = 1 /\ Pid[0] > 0 /\ th[t].resp = StartResponse(Pid[0])
                  /\ Status[0] = RUNNING /\ StartChildren(0) = {Pid[0]}
               \/ /\ th[t].spawned = 0 /\ th[t].resp = StartResponse(-1)
                  /\ Status[0] = DEAD /\ Pid[0] = -1 /\ StartChildren(0) = {}
         [] IsStopFn(th[t].fn) ->
               /\ th[t].spawned = 0 /\ th[t].resp = KillResponse(FALSE)
               /\ Status[0] = DEAD /\ Pid[0] = -1 /\ StartChildren(0) = {}
         [] OTHER ->
               /\ th[t].spawned = 0 /\ th[t].resp.code = 200
               /\ th[t].resp.body = <<[id |-> 0, status |-> "DEAD", pid |-> -1]>>
               /\ Status[0] = DEAD /\ Pid[0] = -1 /\ StartChildren(0) = {}

Alone1(u) ==
    /\ th[u].sig = <<>> /\ StartChildren(1) = {1}
    /\ CASE th[u].fn = "start" ->
               /\ th[u].spawned = 0 /\ th[u].resp.code = 200 /\ th[u].resp.pid = 1
               /\ th[u].resp.msg = "already running"
               /\ Status[1] = RUNNING /\ Pid[1] = 1
         [] IsStopFn(th[u].fn) ->
               \/ /\ th[u].spawned = 1 /\ th[u].resp = KillResponse(TRUE)
                  /\ Status[1] = DEAD /\ Pid[1] = -1
               \/ /\ th[u].spawned \in {0, 1} /\ th[u].resp = KillResponse(FALSE)
                  /\ Status[1] = RUNNING /\ Pid[1] = 1
         [] OTHER ->
               /\ th[u].spawned = 0 /\ th[u].resp.code = 200
               /\ th[u].resp.body = <<[id |-> 1, status |-> "RUNNING", pid |-> 1]>>
               /\ Status[1] = RUNNING /\ Pid[1] = 1

\* the two requests made since StartedOne, on workloads 0 and 1, both about to answer
C32_Pair(t, u) ==
    /\ nreq = 2 /\ th[t].pc = "done" /\ th[u].pc = "done"
    /\ th[t].id = 0 /\ th[u].id = 1

NativeStop(t) == IsStopFn(th[t].fn) /\ th[t].id \in Cmds /\ Mode[th[t].id] = "C"

C33_NativeRestart ==
    /\ \A t \in Threads : NativeStop(t) =>
          LET i == th[t].id
          IN  /\ th[t].pc # "done" => ENABLED SeqStep(t)
              /\ (th[t].pc \in {"k_chk_status", "k_chk_pid", "k_signal"}
                     /\ Status[i] = RUNNING) =>
                       Pid[i] > 0 /\ Pid[i] \in StartChildren(i) /\ KillResult(Pid[i]) = 0
              /\ th[t].pc = "k_signal" => Status[i] = RUNNING
              /\ th[t].pc = "done" =>
                    /\ Status[i] = DEAD /\ Pid[i] = -1
                    /\ IF th[t].sig = <<>> THEN th[t].resp = KillResponse(FALSE)
                                            ELSE th[t].resp = KillResponse(TRUE)
    /\ \A t \in Threads :
          (/\ th[t].fn = "start" /\ th[t].pc = "done" /\ prev # NoPrev
           /\ prev.id = th[t].id /\ IsStopFn(prev.fn) /\ prev.code = 200
           /\ Mode[prev.id] = "C") =>
              \/ /\ th[t].spawned = 1 /\ th[t].resp.code = 200
                 /\ Status[prev.id] = RUNNING /\ Pid[prev.id] = th[t].resp.pid
                 /\ Cardinality(StartChildren(prev.id)) >= 2
              \/ th[t].spawned = 0 /\ th[t].resp = StartResponse(-1)

\* a workload whose process had exited by itself was stopped with success and started
\* again: it is Running with the pid of the new child
C33_Witness ==
    \E t \in Threads :
        /\ th[t].fn = "start" /\ th[t].pc = "done" /\ th[t].spawned = 1
        /\ prev # NoPrev /\ prev.id = th[t].id /\ prev.fn = "stop" /\ prev.code = 200
        /\ Mode[prev.id] = "C" /\ Status[prev.id] = RUNNING
        /\ \E p \in StartChildren(prev.id) : p # Pid[prev.id] /\ procs[p].st = "zombie"

\* the signal of a stop was accepted by a child that had exited and was not reaped
C33_ZombieSignalled ==
    \E t \in Threads :
        /\ NativeStop(t) /\ th[t].fn = "stop" /\ th[t].pc = "k_wstatus"
        /\ procs[th[t].sig[1]].st = "zombie"

\* ------------------------------------------------------------ the legacy server
\* src/src/Server: the same registry, process table and requests, another handler and
\* another ProcessRunner.  ReadCmds fills Commnads from the file with no validation; on
\* DefaultFile it loads the entries that loadConfiguration loads.  command::Pid has no
\* initializer: until start writes it, it holds whatever the build left there.
Garbage == {0} \cup Pids

LegacyInit ==
    /\ boot = Serving(DefaultFile)
    /\ Mode = [i \in Cmds |-> IF i % 2 = 0 THEN "C" ELSE "D"]
    /\ Status = [i \in Cmds |-> DEAD]
    /\ Pid \in [Cmds -> Garbage]
    /\ procs = [p \in Pids |-> FreeProc]
    /\ container = [i \in Cmds |-> FALSE]
    /\ th = [t \in Threads |-> IdleThread]
    /\ prev = NoPrev
    /\ nreq = 0

\* the response is ready; unlike Finish, the frame keeps the pid of the child forked
LegacyFinish(t, r) == th' = [th EXCEPT ![t] = [@ EXCEPT !.pc = "done", !.resp = r]]

\* GET /process/list: description and status of every entry
LegacyList(t) ==
    /\ AllIdle
    /\ nreq < MaxReqs
    /\ nreq' = nreq + 1
    /\ th' = [th EXCEPT ![t] = [IdleThread EXCEPT !.pc = "done", !.fn = "list",
                 !.resp = [code |-> 200, msg |-> "list", pid |-> -1,
                           body |-> [k \in 1 .. NCmds |->
                                       [id |-> k - 1, status |-> StatusName(Status[k - 1])]]]]]
    /\ UNCHANGED <<boot, Mode, Status, Pid, procs, container, prev>>

\* POST /process/control up to the call of ProcessRunner (one request at a time)
LegacyControl(t) ==
    /\ AllIdle
    /\ nreq < MaxReqs
    /\ nreq' = nreq + 1
    /\ \E fn \in FnParams \cup {MissingFn}, idStr \in IdParams \cup {MissingId} :
         LET p == IF idStr = MissingId THEN [ok |-> FALSE, val |-> 0] ELSE Stoi(idStr)
             reject(r) == th' = [th EXCEPT ![t] = [IdleThread EXCEPT !.pc = "done", !.fn = fn,
                                                                    !.idStr = idStr, !.resp = r]]
             enter(l) == th' = [th EXCEPT ![t] = [IdleThread EXCEPT !.pc = l, !.fn = fn,
                                                                   !.idStr = idStr, !.id = p.val]]
             answer(r) == th' = [th EXCEPT ![t] = [IdleThread EXCEPT !.pc = "done", !.fn = fn,
                                        !.idStr = idStr, !.id = p.val, !.resp = r]]
         IN  IF fn = MissingFn \/ idStr = MissingId
               THEN reject(Resp(400, "Missing fn or id parameter"))
             ELSE IF ~p.ok
               THEN reject(Resp(400, "Bad id parameter"))
             ELSE IF p.val < 0 \/ p.val >= NCmds
               THEN reject(Resp(404, "Invalid id"))
             ELSE IF fn = "start" /\ Status[p.val] # RUNNING THEN enter("lg_fork")
             ELSE IF fn \in {"kill", "end", "stop"} THEN enter("lg_kill")
             ELSE IF fn = "status"
               THEN answer([code |-> 200, msg |-> "status", pid |-> -1,
                            body |-> <<[id |-> p.val, status |-> Status[p.val]]>>])
             ELSE answer(Resp(400, "Unknown fn value"))
    /\ UNCHANGED <<boot, Mode, Status, Pid, procs, container, prev>>

\* ProcessRunner::start, fork succeeds: Pid = pid; Status = RUNNING; "Started, pid="
LegacyStartFork(t) ==
    /\ th[t].pc = "lg_fork"
    /\ ForkPid # -1
    /\ procs' = [procs EXCEPT ![ForkPid] =
                    LiveProc(th[t].id, IF Mode[th[t].id] = "C" THEN "target" ELSE "dstart")]
    /\ Pid' = [Pid EXCEPT ![th[t].id] = ForkPid]
    /\ Status' = [Status EXCEPT ![th[t].id] = RUNNING]
    /\ th' = [th EXCEPT ![t] = [@ EXCEPT !.pc = "done", !.pid = ForkPid, !.spawned = @ + 1,
                                         !.resp = StartResponse(ForkPid)]]
    /\ UNCHANGED <<boot, Mode, container, prev, nreq>>

\* ProcessRunner::start, fork fails: return -1, answered 500
LegacyStartForkFail(t) ==
    /\ th[t].pc = "lg_fork"
    /\ LegacyFinish(t, StartResponse(-1))
    /\ UNCHANGED <<boot, Mode, Status, Pid, procs, container, prev, nreq>>

\* ProcessRunner::kill: pid_t pid = commands_[index].Pid; if (pid <= 0) return false;
LegacyKillNoPid(t) ==
    /\ th[t].pc = "lg_kill"
    /\ Pid[th[t].id] <= 0
    /\ LegacyFinish(t, Resp(500, "Failed to kill process"))
    /\ UNCHANGED <<boot, Mode, Status, Pid, procs, container, prev, nreq>>

\* mode C: the handler always passes force = true, so the signal is SIGKILL;
\* ::kill(pid, sig) == 0: Status = DEAD, "Killed"; the pid stays recorded
LegacyKillSignal(t) ==
    /\ th[t].pc = "lg_kill"
    /\ Pid[th[t].id] > 0
    /\ Mode[th[t].id] = "C"
    /\ LET pid == Pid[th[t].id]
       IN  IF KillResult(pid) = 0
           THEN /\ procs' = Deliver(pid, "SIGKILL")
                /\ Status' = [Status EXCEPT ![th[t].id] = DEAD]
                /\ th' = [th EXCEPT ![t] = [@ EXCEPT !.pc = "done", !.sig = <<pid, "SIGKILL">>,
                                                     !.resp = Resp(200, "Killed")]]
           ELSE /\ LegacyFinish(t, Resp(500, "Failed to kill process"))
                /\ UNCHANGED <<procs, Status>>
    /\ UNCHANGED <<boot, Mode, Pid, container, prev, nreq>>

\* mode D: the "docker kill" helper is forked and not waited for: Status = DEAD,
\* "Killed"
LegacyKillFork(t) ==
    /\ th[t].pc = "lg_kill"
    /\ Pid[th[t].id] > 0
    /\ Mode[th[t].id] = "D"
    /\ ForkPid # -1
    /\ procs' = [procs EXCEPT ![ForkPid] = LiveProc(th[t].id, "dkill")]
    /\ Status' = [Status EXCEPT ![th[t].id] = DEAD]
    /\ th' = [th EXCEPT ![t] = [@ EXCEPT !.pc = "done", !.pid = ForkPid, !.spawned = @ + 1,
                                         !.resp = Resp(200, "Killed")]]
    /\ UNCHANGED <<boot, Mode, Pid, container, prev, nreq>>

\* mode D: fork fails: return false
LegacyKillForkFail(t) ==
    /\ th[t].pc = "lg_kill"
    /\ Pid[th[t].id] > 0
    /\ Mode[th[t].id] = "D"
    /\ LegacyFinish(t, Resp(500, "Failed to kill process"))
    /\ UNCHANGED <<boot, Mode, Status, Pid, procs, container, prev, nreq>>

LegacyStep(t) ==
    \/ LegacyList(t) \/ LegacyControl(t)
    \/ LegacyStartFork(t) \/ LegacyStartForkFail(t)
    \/ LegacyKillNoPid(t) \/ LegacyKillSignal(t)
    \/ LegacyKillFork(t) \/ LegacyKillForkFail(t)
    \/ Reply(t)

LegacyNext == (\E t \in Threads : LegacyStep(t)) \/ Env

LegacySpec == LegacyInit /\ [][LegacyNext]_vars

\* C34: in the legacy server a stop, kill or end request on a workload whose status is
\* Dead delivers no signal and forks no helper, whether the workload was started and
\* stopped earlier or was never started.
C34_LegacyStopOnDeadNoEffect ==
    [][\A t \in Threads :
          (th[t].pc = "lg_kill" /\ th'[t] # th[t] /\ Status[th[t].id] = DEAD) =>
              /\ procs' = procs
              /\ th'[t].sig = <<>> /\ th'[t].spawned = 0]_vars

\* a workload started, stopped and stopped again: the second stop, on a Dead workload,
\* has signalled the recorded pid (mode C) or forked another helper (mode D)
C34_StoppedTwice ==
    \E t \in Threads :
        /\ th[t].pc = "done" /\ th[t].fn = "stop" /\ th[t].resp.code = 200
        /\ prev # NoPrev /\ prev.fn = "stop" /\ prev.id = th[t].id /\ prev.code = 200
        /\ th[t].sig # <<>> \/ th[t].spawned = 1

\* the first request ever is a stop of a workload never started: the pid it uses is
\* whatever the entry held
C34_NeverStarted ==
    \E t \in Threads :
        /\ nreq = 1 /\ th[t].pc = "done" /\ th[t].fn = "stop" /\ th[t].spawned = 1
        /\ Status[th[t].id] = DEAD

\* what holds of the code: a stop on an entry whose pid field is <= 0 has no effect
C34_LegacyStopNoPidNoEffect ==
    [][\A t \in Threads :
          (th[t].pc = "lg_kill" /\ th'[t] # th[t] /\ Pid[th[t].id] <= 0) =>
              /\ procs' = procs /\ Status' = Status
              /\ th'[t].sig = <<>> /\ th'[t].spawned = 0 /\ th'[t].resp.code = 500]_vars

\* C35: in the legacy server a start request on a workload that is already Running
\* (the request before it was a successful start of the same workload) forks nothing
\* and is answered with success and the existing pid.
C35_Case(t) ==
    /\ th[t].pc = "done" /\ th[t].fn = "start" /\ th[t].id \in Cmds
    /\ prev # NoPrev /\ prev.fn = "start" /\ prev.id = th[t].id /\ prev.code = 200

C35_LegacyStartIdempotent ==
    \A t \in Threads : C35_Case(t) =>
        /\ th[t].spawned = 0
        /\ th[t].resp.code = 200 /\ th[t].resp.pid = prev.pid

\* what holds of the code: the second start forks nothing, leaves the workload Running
\* with the recorded pid, and is answered 400 "Unknown fn value"
C35_LegacyStartOnRunningUnknownFn ==
    \A t \in Threads : C35_Case(t) =>
        /\ th[t].spawned = 0
        /\ th[t].resp = Resp(400, "Unknown fn value")
        /\ Status[th[t].id] = RUNNING /\ Pid[th[t].id] = prev.pid

C35_SecondStartAnswered ==
    \E t \in Threads : C35_Case(t) /\ th[t].resp.code = 400

\* C36: in the legacy server a stop of a mode D workload sets the status Dead and
\* answers success only when the helper it forked has exited with code 0; while the
\* helper runs, or when it failed, the status is not set to Dead.
LegacyContainerStop(t) ==
    /\ th[t].fn \in {"kill", "end", "stop"} /\ th[t].id \in Cmds
    /\ Mode[th[t].id] = "D" /\ th[t].spawned = 1

C36_LegacyContainerStopWaits ==
    \A t \in Threads :
        (LegacyContainerStop(t) /\ th[t].pc = "done"
            /\ (th[t].resp.code = 200 \/ Status[th[t].id] = DEAD)) =>
                procs[th[t].pid].st = "zombie" /\ procs[th[t].pid].code = 0

\* the stop has been answered "Killed" with the workload Dead, and its helper has
\* failed
C36_DeadThoughHelperFailed ==
    \E t \in Threads :
        /\ LegacyContainerStop(t) /\ th[t].pc = "done" /\ th[t].resp.code = 200
        /\ Status[th[t].id] = DEAD
        /\ procs[th[t].pid].st = "zombie" /\ procs[th[t].pid].code # 0

====
